---- MODULE Spec2Model ----
(***************************************************************************)
(* Model of the native half of GW2ML's MumbleLink binding                  *)
(* (com_github_gw2toolbelt_gw2ml_MumbleLink.c): nOpen and nClose, the      *)
(* Win32 file-mapping objects they acquire and release, and the JNI calls  *)
(* that build the caller-facing MumbleLink object.                         *)
(*                                                                         *)
(* Every Win32 or JNI call of the source is one step; the frame holds the   *)
(* locals of the native call in progress under the source's names.  The    *)
(* caller makes one native call at a time.                                 *)
(* The kernel side (handle table, mapped views, named regions) and an      *)
(* external publisher process are modelled as far as the calls observe     *)
(* them.  GetStringUTFChars and malloc are taken to succeed: memory        *)
(* exhaustion in these two calls is outside the model.                     *)
(***************************************************************************)
EXTENDS Integers, Sequences, FiniteSets, TLC

\* ---------------------------------------------------------------- bounds
MaxCalls == 2

\* ------------------------------------------------------------- constants
MUMBLE_LINK_BYTES == 5460

NULL == 0

Names == {"MumbleLink", "Other"}
Data == {0, 1}

\* The names an external publisher uses; the other names designate regions
\* only this process creates.
Published == {"MumbleLink"}

\* One call acquires at most one handle, one view and one allocation, so
\* pools of MaxCalls ids never run dry; exhaustion is covered by the calls'
\* failure outcomes.
HandleIds == 1..MaxCalls
Addrs == 1..MaxCalls
InstIds == 1..MaxCalls

VARIABLES
    hTab,       \* this process's handle table: HandleIds -> entry
    vTab,       \* this process's mapped views: Addrs -> entry
    heap,       \* malloc'ed GW2MLinstance records: InstIds -> record
    rdata,      \* contents of each named region (0 = all bytes zero)
    rsize,      \* size in bytes of each named region (0 = no such region)
    ext,        \* the external publisher holds the region of that name
    vmDirect,   \* the VM supports JNI access to direct buffers
    frame,      \* position and locals of the native call in progress
    sessions,   \* MumbleLink objects handed to the caller and not yet closed
    nCalls      \* number of nOpen calls started

vars == <<hTab, vTab, heap, rdata, rsize, ext, vmDirect, frame, sessions, nCalls>>

\* ---------------------------------------------------------- kernel state
FreeEntry == [name |-> "", access |-> "", len |-> 0, call |-> 0]
FreeInst == [alloc |-> FALSE, hFileMapping |-> NULL, linkedMem |-> NULL, call |-> 0]

FreeHandles == {h \in HandleIds : hTab[h] = FreeEntry}
FreeAddrs == {a \in Addrs : vTab[a] = FreeEntry}
FreeInsts == {i \in InstIds : ~heap[i].alloc}

Min(S) == CHOOSE x \in S : \A y \in S : x <= y

\* The kernel may hand out any free id.  Free ids that nothing in the process
\* still refers to are interchangeable, so of those only the least is offered;
\* a free id that a GW2MLinstance still stores (a dangling value) may be
\* handed out again as well.
Offered(free, dangling) ==
    (free \cap dangling) \cup
    (IF free \ dangling = {} THEN {} ELSE {Min(free \ dangling)})

OfferedHandles == Offered(FreeHandles, {heap[i].hFileMapping : i \in InstIds})
OfferedAddrs == Offered(FreeAddrs, {heap[i].linkedMem : i \in InstIds})

ValidHandle(h) == h \in HandleIds /\ hTab[h] # FreeEntry
ValidView(a) == a \in Addrs /\ vTab[a] # FreeEntry

\* A file-mapping object lives as long as any handle or view refers to it.
RegionHeld(ht, vt, ex, n) ==
    \/ ex[n]
    \/ \E h \in HandleIds : ht[h].name = n
    \/ \E a \in Addrs : vt[a].name = n

RegionExists(n) == RegionHeld(hTab, vTab, ext, n)

\* Contents after a release: a region nobody refers to any more is destroyed,
\* and a later creation under the same name starts from zeroed pages.
Reclaim(ht, vt, ex) ==
    [n \in Names |-> IF RegionHeld(ht, vt, ex, n) THEN rdata[n] ELSE 0]

ReclaimSize(ht, vt, ex) ==
    [n \in Names |-> IF RegionHeld(ht, vt, ex, n) THEN rsize[n] ELSE 0]

\* What a read through address a yields.
ReadView(a) == IF ValidView(a) THEN rdata[vTab[a].name] ELSE -1

\* ------------------------------------------------------------ frames
IdleFrame ==
    [pc |-> "idle", op |-> "none", call |-> 0, handle |-> "",
     handleName |-> "none", hFileMapping |-> NULL, linkedMem |-> NULL,
     instance |-> NULL, buffer |-> NULL, cls |-> FALSE, cid |-> FALSE,
     exc |-> "none", ret |-> NULL, created |-> FALSE, log |-> <<>>]

Ev(op, arg, ok) == [op |-> op, arg |-> arg, ok |-> ok]

Alive == frame.pc # "crashed"

At(l) == Alive /\ frame.pc = l

Init ==
    /\ hTab = [h \in HandleIds |-> FreeEntry]
    /\ vTab = [a \in Addrs |-> FreeEntry]
    /\ heap = [i \in InstIds |-> FreeInst]
    /\ rdata = [n \in Names |-> 0]
    /\ rsize = [n \in Names |-> 0]
    /\ ext = [n \in Names |-> FALSE]
    /\ vmDirect \in BOOLEAN
    /\ frame = IdleFrame
    /\ sessions = {}
    /\ nCalls = 0

\* ------------------------------------------------- the external publisher
ExtCreate(n) ==
    /\ ~ext[n]
    /\ ext' = [ext EXCEPT ![n] = TRUE]
    /\ rsize' = IF RegionExists(n) THEN rsize
                ELSE [rsize EXCEPT ![n] = MUMBLE_LINK_BYTES]
    /\ UNCHANGED <<hTab, vTab, heap, rdata, vmDirect, frame, sessions, nCalls>>

ExtWrite(n, d) ==
    /\ ext[n]
    /\ rdata[n] # d
    /\ rdata' = [rdata EXCEPT ![n] = d]
    /\ UNCHANGED <<hTab, vTab, heap, rsize, ext, vmDirect, frame, sessions, nCalls>>

ExtClose(n) ==
    /\ ext[n]
    /\ ext' = [ext EXCEPT ![n] = FALSE]
    /\ rdata' = Reclaim(hTab, vTab, ext')
    /\ rsize' = ReclaimSize(hTab, vTab, ext')
    /\ UNCHANGED <<hTab, vTab, heap, vmDirect, frame, sessions, nCalls>>

\* ------------------------------------------------------------------ nOpen
\* Entry and line 47: GetStringUTFChars.
CallOpen(n) ==
    /\ At("idle")
    /\ nCalls < MaxCalls
    /\ nCalls' = nCalls + 1
    /\ frame' = [IdleFrame EXCEPT !.pc = "L49", !.op = "nOpen", !.call = nCalls + 1,
                            !.handle = n, !.handleName = "live",
                            !.log = <<Ev("GetStringUTFChars", 0, TRUE)>>]
    /\ UNCHANGED <<hTab, vTab, heap, rdata, rsize, ext, vmDirect, sessions>>

\* Line 49: OpenFileMappingA(FILE_MAP_READ, FALSE, handleName).
L49_OpenFileMapping ==
    /\ At("L49")
    /\ LET f == frame IN
       \E r \in {NULL} \cup {h \in OfferedHandles : RegionExists(f.handle)} :
          /\ hTab' = IF r = NULL THEN hTab
                     ELSE [hTab EXCEPT ![r] =
                             [name |-> f.handle, access |-> "FILE_MAP_READ",
                              len |-> MUMBLE_LINK_BYTES, call |-> f.call]]
          /\ frame' = [f EXCEPT !.hFileMapping = r,
                          !.pc = IF r = NULL THEN "L51" ELSE "L56",
                          !.log = Append(f.log, Ev("OpenFileMappingA", r, r # NULL))]
    /\ UNCHANGED <<vTab, heap, rdata, rsize, ext, vmDirect, sessions, nCalls>>

\* Line 51: CreateFileMappingA(INVALID_HANDLE_VALUE, NULL, PAGE_READWRITE, 0,
\* MUMBLE_LINK_BYTES, handleName).  On an existing name the call returns a
\* handle to the existing object; otherwise it makes a zero-filled object of
\* the size given.  created records which of the two happened.
L51_CreateFileMapping ==
    /\ At("L51")
    /\ LET f == frame IN
       \E r \in {NULL} \cup OfferedHandles :
          /\ hTab' = IF r = NULL THEN hTab
                     ELSE [hTab EXCEPT ![r] =
                             [name |-> f.handle, access |-> "PAGE_READWRITE",
                              len |-> MUMBLE_LINK_BYTES, call |-> f.call]]
          /\ rsize' = IF r = NULL \/ RegionExists(f.handle) THEN rsize
                      ELSE [rsize EXCEPT ![f.handle] = MUMBLE_LINK_BYTES]
          /\ frame' = [f EXCEPT !.hFileMapping = r, !.pc = "L52",
                          !.created = (r # NULL /\ ~RegionExists(f.handle)),
                          !.log = Append(f.log, Ev("CreateFileMappingA", r, r # NULL))]
    /\ UNCHANGED <<vTab, heap, rdata, ext, vmDirect, sessions, nCalls>>

\* Variant of lines 52-54 that tries OpenFileMappingA again when creation
\* failed.
L52_Retry ==
    /\ At("L52")
    /\ LET f == frame IN
       frame' = [f EXCEPT !.handleName = IF f.hFileMapping = NULL
                                         THEN f.handleName ELSE "released",
                    !.pc = IF f.hFileMapping = NULL THEN "L49" ELSE "L59",
                    !.log = IF f.hFileMapping = NULL THEN f.log
                            ELSE Append(f.log, Ev("ReleaseStringUTFChars", 0, TRUE))]
    /\ UNCHANGED <<hTab, vTab, heap, rdata, rsize, ext, vmDirect, sessions, nCalls>>

\* Lines 52-54: ReleaseStringUTFChars, then the throw when creation failed.
\* No return follows the throw: control falls through to line 59.
L52_ReleaseThrow ==
    /\ At("L52")
    /\ LET f == frame IN
       frame' = [f EXCEPT !.handleName = "released", !.pc = "L59",
                    !.exc = IF f.hFileMapping = NULL
                            THEN "ResourceCreationError" ELSE f.exc,
                    !.log = IF f.hFileMapping = NULL
                            THEN f.log \o <<Ev("ReleaseStringUTFChars", 0, TRUE),
                                            Ev("ThrowNew", 0, TRUE)>>
                            ELSE Append(f.log, Ev("ReleaseStringUTFChars", 0, TRUE))]
    /\ UNCHANGED <<hTab, vTab, heap, rdata, rsize, ext, vmDirect, sessions, nCalls>>

\* Variant of line 56 that does not release the string on the attach branch.
L56_NoRelease ==
    /\ At("L56")
    /\ frame' = [frame EXCEPT !.pc = "L59"]
    /\ UNCHANGED <<hTab, vTab, heap, rdata, rsize, ext, vmDirect, sessions, nCalls>>

\* Line 56: ReleaseStringUTFChars on the attach branch.
L56_Release ==
    /\ At("L56")
    /\ LET f == frame IN
       frame' = [f EXCEPT !.handleName = "released", !.pc = "L59",
                    !.log = Append(f.log, Ev("ReleaseStringUTFChars", 0, TRUE))]
    /\ UNCHANGED <<hTab, vTab, heap, rdata, rsize, ext, vmDirect, sessions, nCalls>>

\* Win32 release calls: an invalid argument makes the call fail and changes
\* nothing; a valid one frees the table entry.
UnmapViewOfFile(a) == IF ValidView(a) THEN [vTab EXCEPT ![a] = FreeEntry] ELSE vTab

CloseHandle(h) == IF ValidHandle(h) THEN [hTab EXCEPT ![h] = FreeEntry] ELSE hTab

\* Variant of line 59 that asks for a writable view.
L59_MapWritable ==
    /\ At("L59")
    /\ LET f == frame IN
       \E r \in {NULL} \cup {a \in OfferedAddrs : ValidHandle(f.hFileMapping)} :
          /\ vTab' = IF r = NULL THEN vTab
                     ELSE [vTab EXCEPT ![r] =
                             [name |-> hTab[f.hFileMapping].name,
                              access |-> "FILE_MAP_WRITE",
                              len |-> MUMBLE_LINK_BYTES, call |-> f.call]]
          /\ frame' = [f EXCEPT !.linkedMem = r,
                          !.pc = IF r = NULL THEN "L61" ELSE "L66",
                          !.log = Append(f.log,
                                     Ev("MapViewOfFile", f.hFileMapping, r # NULL))]
    /\ UNCHANGED <<hTab, heap, rdata, rsize, ext, vmDirect, sessions, nCalls>>

\* Line 59: MapViewOfFile(hFileMapping, FILE_MAP_READ, 0, 0, MUMBLE_LINK_BYTES).
\* A NULL or closed handle makes the call fail.
L59_MapViewOfFile ==
    /\ At("L59")
    /\ LET f == frame IN
       \E r \in {NULL} \cup {a \in OfferedAddrs : ValidHandle(f.hFileMapping)} :
          /\ vTab' = IF r = NULL THEN vTab
                     ELSE [vTab EXCEPT ![r] =
                             [name |-> hTab[f.hFileMapping].name,
                              access |-> "FILE_MAP_READ",
                              len |-> MUMBLE_LINK_BYTES, call |-> f.call]]
          /\ frame' = [f EXCEPT !.linkedMem = r,
                          !.pc = IF r = NULL THEN "L61" ELSE "L66",
                          !.log = Append(f.log,
                                     Ev("MapViewOfFile", f.hFileMapping, r # NULL))]
    /\ UNCHANGED <<hTab, heap, rdata, rsize, ext, vmDirect, sessions, nCalls>>

\* Variant of lines 60-63 that returns NULL without closing the handle.
L61_MapFailed_NoClose ==
    /\ At("L61")
    /\ frame' = [frame EXCEPT !.ret = NULL, !.pc = "idle"]
    /\ UNCHANGED <<hTab, vTab, heap, rdata, rsize, ext, vmDirect, sessions, nCalls>>

\* Lines 60-63: mapping failed: CloseHandle(hFileMapping); return NULL.
L61_MapFailed ==
    /\ At("L61")
    /\ LET f == frame IN
       /\ hTab' = CloseHandle(f.hFileMapping)
       /\ rdata' = Reclaim(hTab', vTab, ext)
       /\ rsize' = ReclaimSize(hTab', vTab, ext)
       /\ frame' = [f EXCEPT !.hFileMapping = NULL, !.ret = NULL, !.pc = "idle",
                       !.log = Append(f.log,
                                  Ev("CloseHandle", f.hFileMapping,
                                     ValidHandle(f.hFileMapping)))]
    /\ UNCHANGED <<vTab, heap, ext, vmDirect, sessions, nCalls>>

\* Variant of lines 66-68 that leaves instance->linkedMem unset.
L66_StoreNoView ==
    /\ At("L66")
    /\ LET f == frame IN
       \E i \in {Min(FreeInsts)} :
          /\ heap' = [heap EXCEPT ![i] =
                        [alloc |-> TRUE, hFileMapping |-> f.hFileMapping,
                         linkedMem |-> NULL, call |-> f.call]]
          /\ frame' = [f EXCEPT !.instance = i, !.pc = "L70",
                          !.log = Append(f.log, Ev("malloc", i, TRUE))]
    /\ UNCHANGED <<hTab, vTab, rdata, rsize, ext, vmDirect, sessions, nCalls>>

\* Lines 66-68: malloc the GW2MLinstance and store the pair.
L66_Malloc ==
    /\ At("L66")
    /\ LET f == frame IN
       \E i \in {Min(FreeInsts)} :
          /\ heap' = [heap EXCEPT ![i] =
                        [alloc |-> TRUE, hFileMapping |-> f.hFileMapping,
                         linkedMem |-> f.linkedMem, call |-> f.call]]
          /\ frame' = [f EXCEPT !.instance = i, !.pc = "L70",
                          !.log = Append(f.log, Ev("malloc", i, TRUE))]
    /\ UNCHANGED <<hTab, vTab, rdata, rsize, ext, vmDirect, sessions, nCalls>>

\* Outcomes of a JNI call.  Made with an exception pending or with a NULL
\* class or method argument the call is undefined: it may go on, report
\* failure, or bring the process down; with a NULL argument it cannot succeed.
JniOutcomes(f, nullArg) ==
    IF nullArg THEN {"fail", "crash"}
    ELSE IF f.exc # "none" THEN {"ok", "fail", "crash"}
    ELSE {"ok", "fail"}

\* Pending exception after a JNI call: a failing call raises one in the VM
\* unless one is pending already.
JniExc(f, o) == IF o = "fail" /\ f.exc = "none" THEN "JvmError" ELSE f.exc

\* Variant of lines 70-71 that enters the unwind block whether or not the
\* buffer was built.
L70_AlwaysUnwind ==
    /\ At("L70")
    /\ LET f == frame IN
       \E o \in IF vmDirect THEN JniOutcomes(f, FALSE) ELSE {"fail"} :
          frame' = [f EXCEPT !.buffer = IF o = "ok" THEN f.linkedMem ELSE NULL,
                       !.exc = IF vmDirect THEN JniExc(f, o) ELSE f.exc,
                       !.pc = IF o = "crash" THEN "crashed" ELSE "L72",
                       !.log = Append(f.log,
                                  Ev("NewDirectByteBuffer", f.linkedMem, o = "ok"))]
    /\ UNCHANGED <<hTab, vTab, heap, rdata, rsize, ext, vmDirect, sessions, nCalls>>

\* Line 70: NewDirectByteBuffer(linkedMem, MUMBLE_LINK_BYTES).  It returns
\* NULL with an exception pending, or NULL without one in a VM that does not
\* support direct buffers.
L70_NewDirectByteBuffer ==
    /\ At("L70")
    /\ LET f == frame IN
       \E o \in IF vmDirect THEN JniOutcomes(f, FALSE) ELSE {"fail"} :
          frame' = [f EXCEPT !.buffer = IF o = "ok" THEN f.linkedMem ELSE NULL,
                       !.exc = IF vmDirect THEN JniExc(f, o) ELSE f.exc,
                       !.pc = IF o = "crash" THEN "crashed"
                              ELSE IF o = "ok" THEN "L77" ELSE "L72",
                       !.log = Append(f.log,
                                  Ev("NewDirectByteBuffer", f.linkedMem, o = "ok"))]
    /\ UNCHANGED <<hTab, vTab, heap, rdata, rsize, ext, vmDirect, sessions, nCalls>>

\* First statement of each unwind block (lines 72, 79, 86):
\* UnmapViewOfFile(linkedMem).
UnwindUnmap(at, next) ==
    /\ At(at)
    /\ LET f == frame IN
       /\ vTab' = UnmapViewOfFile(f.linkedMem)
       /\ rdata' = Reclaim(hTab, vTab', ext)
       /\ rsize' = ReclaimSize(hTab, vTab', ext)
       /\ frame' = [f EXCEPT !.pc = next,
                       !.log = Append(f.log,
                                  Ev("UnmapViewOfFile", f.linkedMem,
                                     ValidView(f.linkedMem)))]
    /\ UNCHANGED <<hTab, heap, ext, vmDirect, sessions, nCalls>>

\* Rest of each unwind block (lines 73-74, 80-81, 87-88):
\* CloseHandle(hFileMapping); if (hFileMapping == NULL) throw.  The local
\* hFileMapping is not reset, and no return follows.
UnwindClose(at, next) ==
    /\ At(at)
    /\ LET f == frame IN
       /\ hTab' = CloseHandle(f.hFileMapping)
       /\ rdata' = Reclaim(hTab', vTab, ext)
       /\ rsize' = ReclaimSize(hTab', vTab, ext)
       /\ frame' = [f EXCEPT !.pc = next,
                       !.exc = IF f.hFileMapping = NULL /\ f.exc = "none"
                               THEN "BindingError" ELSE f.exc,
                       !.log = IF f.hFileMapping = NULL
                               THEN f.log \o <<Ev("CloseHandle", f.hFileMapping, FALSE),
                                               Ev("ThrowNew", 0, TRUE)>>
                               ELSE Append(f.log,
                                       Ev("CloseHandle", f.hFileMapping,
                                          ValidHandle(f.hFileMapping)))]
    /\ UNCHANGED <<vTab, heap, ext, vmDirect, sessions, nCalls>>

L72_Unmap == UnwindUnmap("L72", "L73")
L73_Close == UnwindClose("L73", "L77")

\* Line 77: FindClass("com/github/gw2toolbelt/gw2ml/MumbleLink").
L77_FindClass ==
    /\ At("L77")
    /\ LET f == frame IN
       \E o \in JniOutcomes(f, FALSE) :
          frame' = [f EXCEPT !.cls = (o = "ok"),
                       !.exc = JniExc(f, o),
                       !.pc = IF o = "crash" THEN "crashed"
                              ELSE IF o = "ok" THEN "L84" ELSE "L79",
                       !.log = Append(f.log, Ev("FindClass", 0, o = "ok"))]
    /\ UNCHANGED <<hTab, vTab, heap, rdata, rsize, ext, vmDirect, sessions, nCalls>>

L79_Unmap == UnwindUnmap("L79", "L80")
L80_Close == UnwindClose("L80", "L84")

\* Line 84: GetMethodID(cls, "<init>", ...).
L84_GetMethodID ==
    /\ At("L84")
    /\ LET f == frame IN
       \E o \in JniOutcomes(f, ~f.cls) :
          frame' = [f EXCEPT !.cid = (o = "ok"),
                       !.exc = JniExc(f, o),
                       !.pc = IF o = "crash" THEN "crashed"
                              ELSE IF o = "ok" THEN "L91" ELSE "L86",
                       !.log = Append(f.log, Ev("GetMethodID", 0, o = "ok"))]
    /\ UNCHANGED <<hTab, vTab, heap, rdata, rsize, ext, vmDirect, sessions, nCalls>>

L86_Unmap == UnwindUnmap("L86", "L87")
L87_Close == UnwindClose("L87", "L91")

\* The MumbleLink object NewObject builds from (instance, buffer, handle).
NewSession(f) ==
    [address |-> f.instance, buffer |-> f.buffer, name |-> f.handle, call |-> f.call,
     created |-> f.created]

\* Line 91: return NewObject(cls, cid, instance, buffer, handle).  The caller
\* receives the object unless an exception is pending on return.
L91_NewObject ==
    /\ At("L91")
    /\ LET f == frame IN
       \E o \in JniOutcomes(f, ~f.cls \/ ~f.cid) :
          /\ frame' = [f EXCEPT !.ret = IF o = "ok" THEN f.instance ELSE NULL,
                          !.exc = JniExc(f, o),
                          !.pc = IF o = "crash" THEN "crashed" ELSE "idle",
                          !.log = Append(f.log, Ev("NewObject", f.instance, o = "ok"))]
          /\ sessions' = IF o = "ok" /\ f.exc = "none"
                         THEN sessions \cup {NewSession(f)} ELSE sessions
    /\ UNCHANGED <<hTab, vTab, heap, rdata, rsize, ext, vmDirect, nCalls>>

\* ----------------------------------------------------------------- nClose
\* The caller passes the address of a session it holds, once (line 98).
CallClose(s) ==
    /\ At("idle")
    /\ s \in sessions
    /\ sessions' = sessions \ {s}
    /\ frame' = [IdleFrame EXCEPT !.pc = "L100", !.op = "nClose", !.call = s.call,
                            !.handle = s.name, !.buffer = s.buffer,
                            !.created = s.created, !.instance = s.address]
    /\ UNCHANGED <<hTab, vTab, heap, rdata, rsize, ext, vmDirect, nCalls>>

\* Variant of line 100 that closes the handle while the view is still mapped.
L100_HandleFirst ==
    /\ At("L100")
    /\ LET f == frame
           h == heap[f.instance].hFileMapping IN
       /\ hTab' = CloseHandle(h)
       /\ rdata' = Reclaim(hTab', vTab, ext)
       /\ rsize' = ReclaimSize(hTab', vTab, ext)
       /\ frame' = [f EXCEPT !.pc = "L101",
                       !.log = Append(f.log, Ev("CloseHandle", h, ValidHandle(h)))]
    /\ UNCHANGED <<vTab, heap, ext, vmDirect, sessions, nCalls>>

\* Variant of line 100 that gives up, with an exception, when the unmap fails.
L100_FailFast ==
    /\ At("L100")
    /\ LET f == frame
           a == heap[f.instance].linkedMem IN
       /\ vTab' = UnmapViewOfFile(a)
       /\ rdata' = Reclaim(hTab, vTab', ext)
       /\ rsize' = ReclaimSize(hTab, vTab', ext)
       /\ frame' = [f EXCEPT !.pc = IF ValidView(a) THEN "L101" ELSE "idle",
                       !.exc = IF ValidView(a) THEN f.exc ELSE "JvmError",
                       !.log = Append(f.log, Ev("UnmapViewOfFile", a, ValidView(a)))]
    /\ UNCHANGED <<hTab, heap, ext, vmDirect, sessions, nCalls>>

\* Line 100: UnmapViewOfFile(instance->linkedMem).
L100_Unmap ==
    /\ At("L100")
    /\ LET f == frame
           a == heap[f.instance].linkedMem IN
       /\ vTab' = UnmapViewOfFile(a)
       /\ rdata' = Reclaim(hTab, vTab', ext)
       /\ rsize' = ReclaimSize(hTab, vTab', ext)
       /\ frame' = [f EXCEPT !.pc = "L101",
                       !.log = Append(f.log, Ev("UnmapViewOfFile", a, ValidView(a)))]
    /\ UNCHANGED <<hTab, heap, ext, vmDirect, sessions, nCalls>>

\* Variant of line 101 that closes every handle this process holds on the
\* session's region.
L101_CloseAllOfName ==
    /\ At("L101")
    /\ LET f == frame
           h == heap[f.instance].hFileMapping IN
       /\ hTab' = [k \in HandleIds |->
                      IF hTab[k].name = f.handle THEN FreeEntry ELSE hTab[k]]
       /\ rdata' = Reclaim(hTab', vTab, ext)
       /\ rsize' = ReclaimSize(hTab', vTab, ext)
       /\ frame' = [f EXCEPT !.pc = "L102",
                       !.log = Append(f.log, Ev("CloseHandle", h, ValidHandle(h)))]
    /\ UNCHANGED <<vTab, heap, ext, vmDirect, sessions, nCalls>>

\* Variant of line 101 that leaves the handle open.
L101_NoClose ==
    /\ At("L101")
    /\ LET f == frame
           h == heap[f.instance].hFileMapping IN
       frame' = [f EXCEPT !.pc = "L102",
                    !.log = Append(f.log, Ev("CloseHandle", h, ValidHandle(h)))]
    /\ UNCHANGED <<hTab, vTab, heap, rdata, rsize, ext, vmDirect, sessions, nCalls>>

\* Line 101: CloseHandle(instance->hFileMapping).
L101_Close ==
    /\ At("L101")
    /\ LET f == frame
           h == heap[f.instance].hFileMapping IN
       /\ hTab' = CloseHandle(h)
       /\ rdata' = Reclaim(hTab', vTab, ext)
       /\ rsize' = ReclaimSize(hTab', vTab, ext)
       /\ frame' = [f EXCEPT !.pc = "L102",
                       !.log = Append(f.log, Ev("CloseHandle", h, ValidHandle(h)))]
    /\ UNCHANGED <<vTab, heap, ext, vmDirect, sessions, nCalls>>

\* Line 102: free(instance); return.
L102_Free ==
    /\ At("L102")
    /\ LET f == frame IN
       /\ heap' = [heap EXCEPT ![f.instance] = FreeInst]
       /\ frame' = [f EXCEPT !.pc = "idle",
                       !.log = Append(f.log, Ev("free", f.instance, TRUE))]
    /\ UNCHANGED <<hTab, vTab, rdata, rsize, ext, vmDirect, sessions, nCalls>>

Next ==
    \/ \E n \in Published : ExtCreate(n)
    \/ \E n \in Published, d \in Data : ExtWrite(n, d)
    \/ \E n \in Published : ExtClose(n)
    \/ \E n \in Names : CallOpen(n)
    \/ L49_OpenFileMapping
    \/ L51_CreateFileMapping
    \/ L52_ReleaseThrow
    \/ L56_Release
    \/ L59_MapViewOfFile
    \/ L61_MapFailed
    \/ L66_Malloc
    \/ L70_NewDirectByteBuffer
    \/ L72_Unmap
    \/ L73_Close
    \/ L77_FindClass
    \/ L79_Unmap
    \/ L80_Close
    \/ L84_GetMethodID
    \/ L86_Unmap
    \/ L87_Close
    \/ L91_NewObject
    \/ \E s \in sessions : CallClose(s)
    \/ L100_Unmap
    \/ L101_Close
    \/ L102_Free

Spec == Init /\ [][Next]_vars

\* ------------------------------------------------------------ properties
\* Positions in the log of the call in progress (or the last one returned)
\* at which the named call was made.
Calls(op) == {i \in DOMAIN frame.log : frame.log[i].op = op}
Made(op) == Calls(op) # {}
Succeeded(op) == \E i \in Calls(op) : frame.log[i].ok
Failed(op) == \E i \in Calls(op) : ~frame.log[i].ok

OpenReturned == frame.pc = "idle" /\ frame.op = "nOpen"
CloseReturned == frame.pc = "idle" /\ frame.op = "nClose"

\* The caller of nOpen receives an object: a non-NULL result, no exception.
Delivered == OpenReturned /\ frame.ret # NULL /\ frame.exc = "none"

\* Handles and views acquired by call c that are still held.
HeldHandlesOf(c) == {h \in HandleIds : hTab[h].call = c}
HeldViewsOf(c) == {a \in Addrs : vTab[a].call = c}

GotHandle == Succeeded("OpenFileMappingA") \/ Succeeded("CreateFileMappingA")

\* C1: an nOpen that returns without handing the caller a session holds
\* no handle and no view acquired by that call.
C1_NoLeakOnFailure ==
    (OpenReturned /\ ~Delivered) =>
        /\ HeldHandlesOf(frame.call) = {}
        /\ HeldViewsOf(frame.call) = {}

\* C2: a session handed to the caller holds exactly one handle and one view,
\* both acquired by this call and still held when nOpen returns.
C2_SessionHoldsPair ==
    Delivered =>
        /\ HeldHandlesOf(frame.call) = {heap[frame.ret].hFileMapping}
        /\ HeldViewsOf(frame.call) = {heap[frame.ret].linkedMem}

\* C3: a session is handed to the caller only when every step of nOpen
\* succeeded (creation where it was attempted, mapping, byte-view
\* construction, class lookup, constructor lookup), and then with its view.
C3_NoPartialOutcome ==
    Delivered =>
        /\ ~Failed("CreateFileMappingA")
        /\ ~Failed("MapViewOfFile")
        /\ ~Failed("NewDirectByteBuffer")
        /\ ~Failed("FindClass")
        /\ ~Failed("GetMethodID")
        /\ frame.buffer # NULL

\* C4: when a handle was obtained and mapping failed, nOpen has released that
\* handle exactly once (successfully), has made no other release and no
\* unmap, and returns NULL holding nothing.
C4_MapFailureUnwind ==
    (OpenReturned /\ GotHandle /\ Failed("MapViewOfFile")) =>
        /\ Cardinality(Calls("CloseHandle")) = 1
        /\ \A i \in Calls("CloseHandle") :
              /\ frame.log[i].ok
              /\ \E j \in Calls("OpenFileMappingA") \cup Calls("CreateFileMappingA") :
                    frame.log[j].ok /\ frame.log[j].arg = frame.log[i].arg
        /\ ~Made("UnmapViewOfFile")
        /\ frame.ret = NULL
        /\ HeldHandlesOf(frame.call) = {}
        /\ HeldViewsOf(frame.call) = {}

C4_Witness ==
    /\ OpenReturned /\ GotHandle /\ Failed("MapViewOfFile")
    /\ Cardinality(Calls("CloseHandle")) = 1

\* The error the step that failed calls for.
ExpectedError ==
    IF ~GotHandle THEN {"ResourceCreationError"}
    ELSE IF Failed("MapViewOfFile") THEN {"MappingError"}
    ELSE {"BindingError", "JvmError"}

\* C5: every nOpen that fails returns with an error signalled, and the error
\* matches the failing step.  An exception the VM raised for a failed
\* wrapper step counts as the binding error.
C5_FailureSignalled ==
    (OpenReturned /\ ~Delivered) => frame.exc \in ExpectedError

WrapperStepFailed ==
    Failed("NewDirectByteBuffer") \/ Failed("FindClass") \/ Failed("GetMethodID")

\* C6: when mapping succeeded and a wrapper sub-step failed, nOpen has
\* unmapped the view once, then closed the handle once, and fails with an
\* error signalled.
C6_BindingUnwindOnce ==
    (OpenReturned /\ Succeeded("MapViewOfFile") /\ WrapperStepFailed) =>
        /\ Cardinality(Calls("UnmapViewOfFile")) = 1
        /\ Cardinality(Calls("CloseHandle")) = 1
        /\ \A i \in Calls("UnmapViewOfFile"), j \in Calls("CloseHandle") : i < j
        /\ ~Delivered
        /\ frame.exc \in {"BindingError", "JvmError"}

\* The calls nClose makes, in order.
CloseOrder == <<"UnmapViewOfFile", "CloseHandle", "free">>

\* C7: nClose unmaps the view, then closes the handle, then frees the
\* instance: at every point its calls so far are an initial part of that
\* sequence, made on the instance's own view and handle, and on return all
\* three were made.
C7_CloseOrder ==
    frame.op = "nClose" =>
        /\ Len(frame.log) <= 3
        /\ \A i \in DOMAIN frame.log : frame.log[i].op = CloseOrder[i]
        /\ frame.pc = "idle" => Len(frame.log) = 3
        /\ frame.pc = "L101" => Len(frame.log) = 1
        /\ frame.pc = "L102" =>
              /\ Len(frame.log) = 2
              /\ heap[frame.instance].alloc
              /\ frame.log[1].arg = heap[frame.instance].linkedMem
              /\ frame.log[2].arg = heap[frame.instance].hFileMapping

C7_Witness ==
    /\ CloseReturned
    /\ Len(frame.log) = 3
    /\ frame.log[1].ok /\ frame.log[2].ok

\* C8: nClose carries out all three steps and signals nothing, whatever the
\* unmap and the handle release report.
C8_CloseBestEffort ==
    /\ frame.op = "nClose" => frame.exc = "none"
    /\ CloseReturned =>
          /\ Made("UnmapViewOfFile") /\ Made("CloseHandle") /\ Made("free")
          /\ ~heap[frame.instance].alloc

C8_Witness ==
    /\ CloseReturned
    /\ Failed("UnmapViewOfFile") /\ Failed("CloseHandle")
    /\ Made("free")

\* C9: between calls, the handles and the views the process holds are as many
\* as the sessions open and not yet closed.
C9_ResourceCount ==
    frame.pc = "idle" =>
        /\ Cardinality({h \in HandleIds : ValidHandle(h)}) = Cardinality(sessions)
        /\ Cardinality({a \in Addrs : ValidView(a)}) = Cardinality(sessions)

C11_CreatedRegionZero ==
    (Delivered /\ frame.created) =>
        /\ RegionExists(frame.handle)
        /\ rsize[frame.handle] = MUMBLE_LINK_BYTES
        /\ ValidView(frame.buffer)
        /\ vTab[frame.buffer].name = frame.handle
        /\ vTab[frame.buffer].len = MUMBLE_LINK_BYTES
        /\ ~ext[frame.handle] => ReadView(frame.buffer) = 0

\* Holders of the region of the call in progress other than that call's own
\* handle and view.
OthersHold(n) ==
    \/ ext[n]
    \/ \E h \in HandleIds : hTab[h].name = n /\ hTab[h].call # frame.call
    \/ \E a \in Addrs : vTab[a].name = n /\ vTab[a].call # frame.call

\* C12: once nClose has returned, no handle and no view of the closed session
\* is left; if nothing else holds the region it is gone, a later
\* OpenFileMappingA of that name finds nothing, and the region a later
\* CreateFileMappingA makes is zero-filled.
C12_StateAfterClose ==
    CloseReturned =>
        /\ HeldHandlesOf(frame.call) = {}
        /\ HeldViewsOf(frame.call) = {}
        /\ ~OthersHold(frame.handle) =>
              /\ ~RegionExists(frame.handle)
              /\ rdata[frame.handle] = 0
              /\ rsize[frame.handle] = 0

C12_ReopenStep ==
    /\ (frame.pc = "L49" /\ frame'.pc # "L49" /\ ~RegionExists(frame.handle)) =>
          frame'.pc = "L51"
    /\ (frame.pc = "L51" /\ frame'.created) =>
          /\ rdata'[frame.handle] = 0
          /\ rsize'[frame.handle] = MUMBLE_LINK_BYTES

C12_LastCloseDestroys == []C12_StateAfterClose /\ [][C12_ReopenStep]_vars

C12_Witness ==
    /\ CloseReturned
    /\ frame.created
    /\ Succeeded("UnmapViewOfFile") /\ Succeeded("CloseHandle")
    /\ ~RegionExists(frame.handle)

\* The handle and the view address a session's GW2MLinstance stores.
HandleOf(s) == heap[s.address].hFileMapping
ViewOf(s) == heap[s.address].linkedMem

\* The session holds resources of its own: an instance, a handle and a view,
\* all three acquired by the nOpen that returned it.
OwnsPair(s) ==
    /\ heap[s.address].alloc
    /\ heap[s.address].call = s.call
    /\ ValidHandle(HandleOf(s)) /\ hTab[HandleOf(s)].call = s.call
    /\ ValidView(ViewOf(s)) /\ vTab[ViewOf(s)].call = s.call

C14_ReadOnlyView ==
    /\ \A a \in Addrs :
          ValidView(a) =>
             vTab[a].access = "FILE_MAP_READ" /\ vTab[a].len = MUMBLE_LINK_BYTES
    /\ \A h \in HandleIds :
          ValidHandle(h) => hTab[h].access \in {"FILE_MAP_READ", "PAGE_READWRITE"}
    /\ (frame.op = "nOpen" /\ ValidHandle(frame.hFileMapping)
          /\ hTab[frame.hFileMapping].call = frame.call) =>
             hTab[frame.hFileMapping].access =
                IF Succeeded("OpenFileMappingA") THEN "FILE_MAP_READ"
                ELSE "PAGE_READWRITE"

C14_Witness ==
    \E s1, s2 \in sessions :
        /\ s1.created /\ ~s2.created
        /\ OwnsPair(s1) /\ OwnsPair(s2)
        /\ hTab[HandleOf(s1)].access = "PAGE_READWRITE"
        /\ hTab[HandleOf(s2)].access = "FILE_MAP_READ"

C16_OneDecision ==
    frame.op = "nOpen" =>
        /\ Cardinality(Calls("OpenFileMappingA")) <= 1
        /\ frame.pc # "L49" => Cardinality(Calls("OpenFileMappingA")) = 1
        /\ Cardinality(Calls("CreateFileMappingA")) <= 1
        /\ Made("CreateFileMappingA") => Failed("OpenFileMappingA")
        /\ Succeeded("OpenFileMappingA") => ~Made("CreateFileMappingA")
        /\ \A i \in Calls("OpenFileMappingA"), j \in Calls("CreateFileMappingA") : i < j
        /\ Cardinality(Calls("MapViewOfFile")) <= 1

C16_Witness ==
    /\ OpenReturned
    /\ Failed("OpenFileMappingA")
    /\ Succeeded("CreateFileMappingA")
    /\ Succeeded("MapViewOfFile")

\* C17: every session the caller holds and has not closed owns its handle and
\* its view, both still held.
C17_SessionKeepsPair == \A s \in sessions : OwnsPair(s)

\* Positions of the Win32 calls nOpen makes on the region.
RegionCalls ==
    Calls("MapViewOfFile") \cup Calls("CloseHandle") \cup Calls("UnmapViewOfFile")

\* C18: nOpen passes no NULL handle to MapViewOfFile or CloseHandle and no
\* NULL address to UnmapViewOfFile, and makes no call on the region once
\* CreateFileMappingA has failed.
C18_OnlyAcquired ==
    frame.op = "nOpen" =>
        /\ \A i \in RegionCalls : frame.log[i].arg # NULL
        /\ Failed("CreateFileMappingA") => RegionCalls = {}

\* C19: the instance is allocated only after mapping succeeded; an nOpen that
\* returns no session leaves no instance of its own allocated; nClose frees
\* the session's instance as its last step.
C19_InstanceNotLeaked ==
    /\ (frame.op = "nOpen" /\ Made("malloc")) => Succeeded("MapViewOfFile")
    /\ (OpenReturned /\ ~Delivered) =>
          \A i \in InstIds : ~(heap[i].alloc /\ heap[i].call = frame.call)
    /\ CloseReturned =>
          /\ ~heap[frame.instance].alloc
          /\ frame.log[Len(frame.log)].op = "free"

\* C20: nOpen releases the native copy of the name once, after its last use:
\* OpenFileMappingA and CreateFileMappingA come before the release, and from
\* line 59 on the copy has been released.
C20_NameReleasedOnce ==
    frame.op = "nOpen" =>
        /\ Cardinality(Calls("ReleaseStringUTFChars")) <= 1
        /\ \A i \in Calls("OpenFileMappingA") \cup Calls("CreateFileMappingA"),
              j \in Calls("ReleaseStringUTFChars") : i < j
        /\ frame.pc \in {"L49", "L51", "L52", "L56"} =>
              /\ frame.handleName = "live"
              /\ ~Made("ReleaseStringUTFChars")
        /\ frame.pc \notin {"L49", "L51", "L52", "L56"} =>
              /\ frame.handleName = "released"
              /\ Cardinality(Calls("ReleaseStringUTFChars")) = 1

C20_Witness ==
    /\ OpenReturned
    /\ Failed("CreateFileMappingA")
    /\ Cardinality(Calls("ReleaseStringUTFChars")) = 1
====
